---- MODULE Spec2Model ----
(***************************************************************************)
(* Model of the job-control shell of rust_zero/zerosh/src/shell.rs.        *)
(*                                                                         *)
(* Three threads: the Reader (Shell::run), the signal forwarder            *)
(* (spawn_sig_handler) and the Worker (Worker::spawn), plus the kernel's   *)
(* view of the child processes and of the controlling terminal.            *)
(*                                                                         *)
(* Strings are sequences of one-character strings, so that parse_cmd and   *)
(* the integer parsers are computed character by character.                *)
(* Option<T> is a set with at most one element: None == {}, Some(x) == {x}.*)
(*                                                                         *)
(* Spec is the shell; ParseSpec calls parse_cmd alone on every short line. *)
(* ArraySpec is the ArrayStack of open_data_structures, on its own.        *)
(*                                                                         *)
(* Not modelled: failures of pipe, setpgid, tcsetpgrp and killpg (the code *)
(* unwraps them); the child's side of fork_exec beyond "it runs"; the      *)
(* line editor, its history and the prompt (Shell::run's prev).            *)
(***************************************************************************)
EXTENDS Integers, Sequences, FiniteSets, TLC

\* ----------------------------------------------------------------------
\* Bounds of the model
\* ----------------------------------------------------------------------
MaxPid == 2
MaxSignals == 1
MaxEvents == 3
MaxLen == 6
MaxN == 3

\* ----------------------------------------------------------------------
\* Program constants
\* ----------------------------------------------------------------------
SIGINT == 2
SIGCHLD == 17
SIGTSTP == 20
ShellPgid == 100

Pids == 1..MaxPid
ExitStatuses == {0, 1}
TermSignals == {9}

None == {}
Some(x) == {x}
Unwrap(o) == CHOOSE x \in o : TRUE

\* ----------------------------------------------------------------------
\* Strings
\* ----------------------------------------------------------------------
IsWhite(c) == c \in {" ", "\t"}
Digits == {"0", "1", "2", "3", "4", "5", "6", "7", "8", "9"}
DigitVal(c) ==
  CASE c = "0" -> 0 [] c = "1" -> 1 [] c = "2" -> 2 [] c = "3" -> 3
    [] c = "4" -> 4 [] c = "5" -> 5 [] c = "6" -> 6 [] c = "7" -> 7
    [] c = "8" -> 8 [] c = "9" -> 9

RECURSIVE TrimStart(_)
TrimStart(s) ==
  IF s # <<>> /\ IsWhite(Head(s)) THEN TrimStart(Tail(s)) ELSE s

RECURSIVE TrimEnd(_)
TrimEnd(s) ==
  IF s # <<>> /\ IsWhite(s[Len(s)]) THEN TrimEnd(SubSeq(s, 1, Len(s) - 1)) ELSE s

\* str::trim
Trim(s) == TrimEnd(TrimStart(s))

\* str::split(c): the pieces between occurrences of c, empty pieces included
RECURSIVE SplitAcc(_, _, _)
SplitAcc(s, c, cur) ==
  IF s = <<>> THEN <<cur>>
  ELSE IF Head(s) = c THEN <<cur>> \o SplitAcc(Tail(s), c, <<>>)
  ELSE SplitAcc(Tail(s), c, Append(cur, Head(s)))

Split(s, c) == SplitAcc(s, c, <<>>)

\* str::split_whitespace: the maximal runs of non-whitespace characters
RECURSIVE SplitWsAcc(_, _)
SplitWsAcc(s, cur) ==
  IF s = <<>> THEN (IF cur = <<>> THEN <<>> ELSE <<cur>>)
  ELSE IF IsWhite(Head(s))
       THEN (IF cur = <<>> THEN <<>> ELSE <<cur>>) \o SplitWsAcc(Tail(s), <<>>)
  ELSE SplitWsAcc(Tail(s), Append(cur, Head(s)))

SplitWhitespace(s) == SplitWsAcc(s, <<>>)

RECURSIVE DigitsValue(_, _)
DigitsValue(s, acc) ==
  IF s = <<>> THEN acc ELSE DigitsValue(Tail(s), acc * 10 + DigitVal(Head(s)))

AllDigits(s) == s # <<>> /\ \A i \in 1..Len(s) : s[i] \in Digits

I32Max == 2147483647

\* str::parse::<i32>: optional sign, at least one digit, value in range
ParseI32(s) ==
  LET signed == s # <<>> /\ Head(s) \in {"+", "-"}
      body == IF signed THEN Tail(s) ELSE s
      mag == DigitsValue(body, 0)
      v == IF s # <<>> /\ Head(s) = "-" THEN 0 - mag ELSE mag
  IN IF AllDigits(body) /\ v >= 0 - I32Max - 1 /\ v <= I32Max
     THEN [ok |-> TRUE, val |-> v]
     ELSE [ok |-> FALSE, val |-> 0]

\* str::parse::<usize>: optional "+", at least one digit
ParseUsize(s) ==
  LET body == IF s # <<>> /\ Head(s) = "+" THEN Tail(s) ELSE s
  IN IF AllDigits(body)
     THEN [ok |-> TRUE, val |-> DigitsValue(body, 0)]
     ELSE [ok |-> FALSE, val |-> 0]

\* parse_cmd: one (command, options) pair per "|"-separated stage
RECURSIVE ParseStages(_)
ParseStages(segs) ==
  IF segs = <<>> THEN [ok |-> TRUE, cmds |-> <<>>]
  ELSE LET cmd == Trim(Head(segs))
       IN IF cmd = <<>> THEN [ok |-> FALSE, cmds |-> <<>>]
          ELSE LET cmd_and_options == SplitWhitespace(cmd)
                   rest == ParseStages(Tail(segs))
               IN IF rest.ok
                  THEN [ok |-> TRUE,
                        cmds |-> <<[cmd |-> cmd_and_options[1],
                                    args |-> Tail(cmd_and_options)]>> \o rest.cmds]
                  ELSE rest

\* parse_cmd that skips the empty stages instead of failing
parse_cmd_skips_empty_stages(line) ==
  ParseStages(SelectSeq(Split(line, "|"), LAMBDA seg : Trim(seg) # <<>>))

parse_cmd(line) == ParseStages(Split(line, "|"))


\* ----------------------------------------------------------------------
\* Maps (BTreeMap / HashMap) as functions with a finite domain
\* ----------------------------------------------------------------------
EmptyMap == [x \in {} |-> 0]
MapPut(f, k, v) == [x \in (DOMAIN f) \cup {k} |-> IF x = k THEN v ELSE f[x]]
MapDel(f, k) == [x \in (DOMAIN f) \ {k} |-> f[x]]

\* ----------------------------------------------------------------------
\* Messages
\* ----------------------------------------------------------------------
\* enum WorkerMsg
MsgCmd(line) == [type |-> "Cmd", line |-> line, sig |-> 0]
MsgSignal(n) == [type |-> "Signal", line |-> <<>>, sig |-> n]
\* enum ShellMsg
Continue(n) == [type |-> "Continue", code |-> n]
Quit(n) == [type |-> "Quit", code |-> n]

\* enum WaitStatus, as far as wait_child distinguishes it
NoEvent == [kind |-> "StillAlive", pid |-> 0, val |-> 0]
WsExited(pid, status) == [kind |-> "Exited", pid |-> pid, val |-> status]
WsSignaled(pid, sig) == [kind |-> "Signaled", pid |-> pid, val |-> sig]
WsStopped(pid) == [kind |-> "Stopped", pid |-> pid, val |-> 0]
WsContinued(pid) == [kind |-> "Continued", pid |-> pid, val |-> 0]
WsEchild == [kind |-> "ECHILD", pid |-> 0, val |-> 0]

\* struct ProcInfo
ProcInfo(state, pgid) == [state |-> state, pgid |-> pgid]

\* A process slot of the kernel: st is "free" (no such process), "run",
\* "stop" or "zombie"; ev is the state change waitpid has not reported yet.
FreeProc == [st |-> "free", pgid |-> 0, ev |-> NoEvent]

\* ----------------------------------------------------------------------
\* The machine a Worker handler runs on: the Worker's fields, the kernel
\* state its system calls touch, and what the handler did (out: the
\* message it hands to shell_tx.send; panic: a failed assert! or unwrap).
\* ----------------------------------------------------------------------
\* no pipe descriptor is open in the parent
NoPipe == [open |-> {}, ebadf |-> FALSE]

\* shell_tx.send(msg)
Send(m, msg) == [m EXCEPT !.out = Append(m.out, msg)]

\* tcsetpgrp(libc::STDIN_FILENO, pgid)
tcsetpgrp(m, pgid) == [m EXCEPT !.tty = pgid]

\* killpg(pgid, SIGCONT): every stopped process of the group continues
killpg_cont(m, pgid) ==
  LET hit == {p \in Pids : m.procs[p].st = "stop" /\ m.procs[p].pgid = pgid}
  IN [m EXCEPT !.procs = [p \in Pids |->
                            IF p \in hit
                            THEN [m.procs[p] EXCEPT !.st = "run", !.ev = WsContinued(p)]
                            ELSE m.procs[p]],
               !.chld = m.chld \/ hit # {}]

\* pipe(): two new descriptors, both open in the parent
Pipe(m) == [m EXCEPT !.pipe.open = m.pipe.open \cup {"rd", "wr"}]

\* unistd::close(fd).unwrap(): closing a descriptor that is not open is EBADF
Close(m, fd) ==
  IF fd \in m.pipe.open
  THEN [m EXCEPT !.pipe.open = m.pipe.open \ {fd}]
  ELSE [m EXCEPT !.pipe.ebadf = TRUE, !.panic = TRUE]

\* a cleanup closure that forgets the write end
CleanuUp_drop_input_only(m, input, output) ==
  IF input # None THEN Close(m, Unwrap(input)) ELSE m

\* the closure of cleanup_pipe, run by CleanuUp::drop
CleanuUp_drop(m, input, output) ==
  LET m1 == IF input # None THEN Close(m, Unwrap(input)) ELSE m
  IN IF output # None THEN Close(m1, Unwrap(output)) ELSE m1

\* fork_exec, parent side, for a fork that succeeded with pid child:
\* the child exists, runs, and is in group pgid (its own pid if pgid = 0)
fork_exec(m, pgid, child) ==
  [m EXCEPT !.procs[child] = [st |-> "run",
                              pgid |-> IF pgid = 0 THEN child ELSE pgid,
                              ev |-> NoEvent]]

\* the pids fork may return: no process and no process group has that id
ForkablePids(procs) ==
  {p \in Pids : procs[p].st = "free" /\ \A q \in Pids : procs[q].st = "free" \/ procs[q].pgid # p}

\* get_new_job_id with the search started at 1 instead of 0
get_new_job_id_from_one(m) ==
  Some(CHOOSE i \in 1..(Cardinality(DOMAIN m.jobs) + 1) :
         i \notin DOMAIN m.jobs /\ \A k \in 1..(i - 1) : k \in DOMAIN m.jobs)

\* Worker::get_new_job_id
RECURSIVE FirstFreeFrom(_, _)
FirstFreeFrom(jobs, i) == IF i \notin DOMAIN jobs THEN i ELSE FirstFreeFrom(jobs, i + 1)

get_new_job_id(m) == Some(FirstFreeFrom(m.jobs, 0))

\* insert_job that files the group under the wrong job
insert_job_wrong_owner(m, job_id, pgid, pids, line) ==
  [m EXCEPT !.jobs = MapPut(m.jobs, job_id, [pgid |-> pgid, line |-> line]),
            !.pid_to_info = [p \in (DOMAIN m.pid_to_info) \cup (DOMAIN pids) |->
                               IF p \in DOMAIN pids THEN pids[p] ELSE m.pid_to_info[p]],
            !.pgid_to_pids = MapPut(m.pgid_to_pids, pgid,
                                    [job_id |-> job_id + 1, pids |-> DOMAIN pids])]

\* Worker::insert_job.  A failed assert! panics; the Worker value is dropped
\* by the unwinding, so the tables of a panicked machine are not observable.
insert_job(m, job_id, pgid, pids, line) ==
  IF job_id \in DOMAIN m.jobs THEN [m EXCEPT !.panic = TRUE]
  ELSE LET m1 == [m EXCEPT !.jobs = MapPut(m.jobs, job_id, [pgid |-> pgid, line |-> line])]
       IN IF \E pid \in DOMAIN pids : pid \in DOMAIN m1.pid_to_info
          THEN [m1 EXCEPT !.panic = TRUE]
          ELSE LET m2 == [m1 EXCEPT !.pid_to_info =
                            [p \in (DOMAIN m1.pid_to_info) \cup (DOMAIN pids) |->
                               IF p \in DOMAIN pids THEN pids[p] ELSE m1.pid_to_info[p]]]
               IN IF pgid \in DOMAIN m2.pgid_to_pids
                  THEN [m2 EXCEPT !.panic = TRUE]
                  ELSE [m2 EXCEPT !.pgid_to_pids =
                          MapPut(m2.pgid_to_pids, pgid, [job_id |-> job_id, pids |-> DOMAIN pids])]

\* spawn_child that registers the first child only
spawn_child_forgets_second(m0, line, cmd, r1, r2) ==
  LET m == m0
      job_id == Unwrap(get_new_job_id(m))
      two == Len(cmd) = 2
      mp == IF two THEN Pipe(m) ELSE m
      input == IF two THEN Some("rd") ELSE None
      output == IF two THEN Some("wr") ELSE None
      pgid == r1
      mf1 == fork_exec(mp, 0, r1)
      pids == MapPut(EmptyMap, pgid, ProcInfo("Run", pgid))
      mf2 == IF two THEN fork_exec(mf1, pgid, r2) ELSE mf1
      md == CleanuUp_drop(mf2, input, output)
      mi == insert_job([md EXCEPT !.fg = Some(pgid)], job_id, pgid, pids, line)
  IN IF Len(cmd) > 2 THEN [m EXCEPT !.ret = FALSE]
     ELSE IF r1 = 0 THEN [CleanuUp_drop(mp, input, output) EXCEPT !.ret = FALSE]
     ELSE IF two /\ r2 = 0 THEN [CleanuUp_drop(mf1, input, output) EXCEPT !.ret = FALSE]
     ELSE IF mi.panic THEN mi
     ELSE [tcsetpgrp(mi, pgid) EXCEPT !.ret = TRUE]

\* Worker::spawn_child.  r1 and r2 are the results of the two fork calls:
\* 0 for Err, else the child's pid.  The field ret is the returned bool.
spawn_child(m0, line, cmd, r1, r2) ==
  LET m == m0
      job_id == Unwrap(get_new_job_id(m))
      two == Len(cmd) = 2
      mp == IF two THEN Pipe(m) ELSE m
      input == IF two THEN Some("rd") ELSE None
      output == IF two THEN Some("wr") ELSE None
      pgid == r1
      info == ProcInfo("Run", pgid)
      mf1 == fork_exec(mp, 0, r1)
      pids1 == MapPut(EmptyMap, pgid, info)
      mf2 == IF two THEN fork_exec(mf1, pgid, r2) ELSE mf1
      pids == IF two THEN MapPut(pids1, r2, info) ELSE pids1
      md == CleanuUp_drop(mf2, input, output)
      mfg == [md EXCEPT !.fg = Some(pgid)]
      mi == insert_job(mfg, job_id, pgid, pids, line)
  IN IF Len(cmd) > 2 THEN [m EXCEPT !.ret = FALSE]
     ELSE IF r1 = 0 THEN [CleanuUp_drop(mp, input, output) EXCEPT !.ret = FALSE]
     ELSE IF two /\ r2 = 0 THEN [CleanuUp_drop(mf1, input, output) EXCEPT !.ret = FALSE]
     ELSE IF mi.panic THEN mi
     ELSE [tcsetpgrp(mi, pgid) EXCEPT !.ret = TRUE]


\* ----------------------------------------------------------------------
\* Built-in commands
\* ----------------------------------------------------------------------
S_exit == <<"e", "x", "i", "t">>
S_jobs == <<"j", "o", "b", "s">>
S_fg == <<"f", "g">>
S_cd == <<"c", "d">>

\* run_exit without the check for running jobs
run_exit_ignores_jobs(m, args) ==
  IF Len(args) >= 2 /\ ~ParseI32(args[2]).ok
  THEN [Send([m EXCEPT !.exit_val = 1], Continue(1)) EXCEPT !.ret = TRUE]
  ELSE [Send(m, Quit(m.exit_val)) EXCEPT !.ret = TRUE]

\* Worker::run_exit.  args are the options of the command (cmd[0].1), so
\* args.get(1) is the second option: args[2] here, sequences being 1-based.
run_exit(m, args) ==
  IF DOMAIN m.jobs # {}
  THEN [Send([m EXCEPT !.exit_val = 1], Continue(1)) EXCEPT !.ret = TRUE]
  ELSE LET given == Len(args) >= 2
           n == ParseI32(args[2])
       IN IF given /\ ~n.ok
          THEN [Send([m EXCEPT !.exit_val = 1], Continue(1)) EXCEPT !.ret = TRUE]
          ELSE \* the parsed code is bound to a local the send does not use
               [Send(m, Quit(m.exit_val)) EXCEPT !.ret = TRUE]

\* run_fg whose usage error leaves exit_val as it was
run_fg_usage_keeps_exit_val(m, args) ==
  IF Len(args) < 2
  THEN [Send(m, Continue(m.exit_val)) EXCEPT !.ret = TRUE]
  ELSE LET m1 == [m EXCEPT !.exit_val = 1]
           n == ParseUsize(args[2])
       IN IF n.ok /\ n.val \in DOMAIN m1.jobs
          THEN LET pgid == m1.jobs[n.val].pgid
                   m2 == [m1 EXCEPT !.fg = Some(pgid)]
               IN [killpg_cont(tcsetpgrp(m2, pgid), pgid) EXCEPT !.ret = TRUE]
          ELSE [Send(m1, Continue(m1.exit_val)) EXCEPT !.ret = TRUE]

\* Worker::run_fg
run_fg(m, args) ==
  LET m1 == [m EXCEPT !.exit_val = 1]
  IN IF Len(args) < 2
     THEN [Send(m1, Continue(m1.exit_val)) EXCEPT !.ret = TRUE]
     ELSE LET n == ParseUsize(args[2])
          IN IF n.ok /\ n.val \in DOMAIN m1.jobs
             THEN LET pgid == m1.jobs[n.val].pgid
                      m2 == [m1 EXCEPT !.fg = Some(pgid)]
                  IN [killpg_cont(tcsetpgrp(m2, pgid), pgid) EXCEPT !.ret = TRUE]
             ELSE [Send(m1, Continue(m1.exit_val)) EXCEPT !.ret = TRUE]

\* Worker::run_jobs
run_jobs(m) == [m EXCEPT !.ret = TRUE]

\* Worker::run_cd
run_cd(m, args) == [m EXCEPT !.ret = TRUE]

\* Worker::build_in_cmd
build_in_cmd(m, cmd) ==
  IF Len(cmd) > 1 THEN [m EXCEPT !.ret = FALSE]
  ELSE CASE cmd[1].cmd = S_exit -> run_exit(m, cmd[1].args)
         [] cmd[1].cmd = S_jobs -> run_jobs(m)
         [] cmd[1].cmd = S_fg -> run_fg(m, cmd[1].args)
         [] cmd[1].cmd = S_cd -> run_cd(m, cmd[1].args)
         [] OTHER -> [m EXCEPT !.ret = FALSE]

\* the Cmd arm that lets the Reader prompt as soon as the job is spawned
handle_cmd_replies_after_spawn(m, line, r1, r2) ==
  LET parsed == parse_cmd(line)
      b == build_in_cmd(m, parsed.cmds)
      c == spawn_child(b, line, parsed.cmds, r1, r2)
  IN IF ~parsed.ok THEN Send(m, Continue(m.exit_val))
     ELSE IF b.ret THEN b
     ELSE IF ~c.panic THEN Send(c, Continue(c.exit_val))
     ELSE c

\* the Cmd arm that counts a failed spawn as a failed command
handle_cmd_failure_sets_exit_val(m, line, r1, r2) ==
  LET parsed == parse_cmd(line)
      b == build_in_cmd(m, parsed.cmds)
      c == spawn_child(b, line, parsed.cmds, r1, r2)
  IN IF ~parsed.ok THEN Send(m, Continue(m.exit_val))
     ELSE IF b.ret THEN b
     ELSE IF ~c.panic /\ ~c.ret THEN Send([c EXCEPT !.exit_val = 1], Continue(1))
     ELSE c

\* The WorkerMsg::Cmd arm of Worker::spawn
handle_cmd(m, line, r1, r2) ==
  LET parsed == parse_cmd(line)
      b == build_in_cmd(m, parsed.cmds)
      c == spawn_child(b, line, parsed.cmds, r1, r2)
  IN IF ~parsed.ok THEN Send(m, Continue(m.exit_val))
     ELSE IF b.ret THEN b
     ELSE IF ~c.panic /\ ~c.ret THEN Send(c, Continue(c.exit_val))
     ELSE c

\* ----------------------------------------------------------------------
\* Child state changes
\* ----------------------------------------------------------------------
\* Worker::set_pid_state
set_pid_state(m, pid, state) ==
  IF pid \in DOMAIN m.pid_to_info
  THEN [m EXCEPT !.pid_to_info[pid].state = state]
  ELSE m

\* Worker::remove_pid: ret tells Some from None; the pair is (job_id, pgid)
remove_pid(m, pid) ==
  IF pid \notin DOMAIN m.pid_to_info THEN [m EXCEPT !.ret = FALSE]
  ELSE LET pgid == m.pid_to_info[pid].pgid
       IN IF pgid \notin DOMAIN m.pgid_to_pids THEN [m EXCEPT !.ret = FALSE]
          ELSE [m EXCEPT !.pgid_to_pids[pgid].pids = @ \ {pid}, !.ret = TRUE]

\* Worker::remove_job
remove_job(m, job_id) ==
  IF job_id \notin DOMAIN m.jobs THEN m
  ELSE LET pgid == m.jobs[job_id].pgid
           m1 == [m EXCEPT !.jobs = MapDel(m.jobs, job_id)]
       IN IF pgid \notin DOMAIN m1.pgid_to_pids THEN m1
          ELSE LET pids == m1.pgid_to_pids[pgid].pids
                   m2 == [m1 EXCEPT !.pgid_to_pids = MapDel(m1.pgid_to_pids, pgid)]
               IN \* assert!(!pids.is_empty())
                  IF pids # {} THEN m2 ELSE [m2 EXCEPT !.panic = TRUE]

\* Worker::is_group_empty (the caller has checked that pgid is a key)
is_group_empty(m, pgid) == m.pgid_to_pids[pgid].pids = {}

\* is_group_stop that is content with one stopped process
is_group_stop_any(m, pgid) ==
  \E pid \in m.pgid_to_pids[pgid].pids : m.pid_to_info[pid].state # "Run"

\* Worker::is_group_stop (every pid of a group is a key of pid_to_info)
is_group_stop(m, pgid) ==
  \A pid \in m.pgid_to_pids[pgid].pids : m.pid_to_info[pid].state # "Run"

\* set_shell_fg that leaves the terminal with the job
set_shell_fg_keeps_tty(m) ==
  Send([m EXCEPT !.fg = None], Continue(m.exit_val))

\* Worker::set_shell_fg
set_shell_fg(m) ==
  LET m1 == [m EXCEPT !.fg = None]
      m2 == tcsetpgrp(m1, m1.shell_pgid)
  IN Send(m2, Continue(m2.exit_val))

\* Worker::manage_job
manage_job(m, job_id, pgid) ==
  LET is_fg == m.fg # None /\ Unwrap(m.fg) = pgid
  IN IF job_id \notin DOMAIN m.jobs \/ pgid \notin DOMAIN m.pgid_to_pids
     THEN [m EXCEPT !.panic = TRUE]
     ELSE IF is_fg
     THEN IF is_group_empty(m, pgid)
          THEN LET r == remove_job(m, job_id)
               IN IF r.panic THEN r ELSE set_shell_fg(r)
          ELSE IF is_group_stop(m, pgid) THEN set_shell_fg(m)
          ELSE m
     ELSE IF is_group_empty(m, pgid) THEN remove_job(m, job_id)
          ELSE m

\* process_term that answers for a pid it does not know
process_term_always_replies(m, pid) ==
  LET r == remove_pid(m, pid)
  IN IF r.ret
     THEN manage_job(r, r.pgid_to_pids[r.pid_to_info[pid].pgid].job_id, r.pid_to_info[pid].pgid)
     ELSE Send(r, Continue(r.exit_val))

\* Worker::process_term
process_term(m, pid) ==
  LET r == remove_pid(m, pid)
  IN IF r.ret
     THEN manage_job(r, r.pgid_to_pids[r.pid_to_info[pid].pgid].job_id, r.pid_to_info[pid].pgid)
     ELSE r

\* process_stop that records the state and does not look at the job
process_stop_only_marks(m, pid) == set_pid_state(m, pid, "Stop")

\* Worker::process_stop
process_stop(m, pid) ==
  LET m1 == set_pid_state(m, pid, "Stop")
  IN IF pid \notin DOMAIN m1.pid_to_info THEN [m1 EXCEPT !.panic = TRUE]
     ELSE LET pgid == m1.pid_to_info[pid].pgid
          IN IF pgid \notin DOMAIN m1.pgid_to_pids THEN [m1 EXCEPT !.panic = TRUE]
             ELSE manage_job(m1, m1.pgid_to_pids[pgid].job_id, pgid)

\* process_continue that tells the Reader
process_continue_replies(m, pid) ==
  Send(set_pid_state(m, pid, "Run"), Continue(m.exit_val))

\* Worker::process_continue
process_continue(m, pid) == set_pid_state(m, pid, "Run")

\* One iteration of the loop of Worker::wait_child, for the status ws that
\* waitpid returned.  ret is TRUE when the loop goes on, FALSE on return.
wait_child(m, ws) ==
  CASE ws.kind = "Exited" ->
         [process_term([m EXCEPT !.exit_val = ws.val], ws.pid) EXCEPT !.ret = TRUE]
    [] ws.kind = "Signaled" ->
         [process_term([m EXCEPT !.exit_val = ws.val + 128], ws.pid) EXCEPT !.ret = TRUE]
    [] ws.kind = "Stopped" -> [process_stop(m, ws.pid) EXCEPT !.ret = TRUE]
    [] ws.kind = "Continued" -> [process_continue(m, ws.pid) EXCEPT !.ret = TRUE]
    [] OTHER -> [m EXCEPT !.ret = FALSE]

\* waitpid(-1, WUNTRACED | WNOHANG | WCONTINUED): the statuses it may return
WaitResults(procs) ==
  LET pending == {p \in Pids : procs[p].st # "free" /\ procs[p].ev.kind # "StillAlive"}
  IN IF pending # {} THEN {procs[p].ev : p \in pending}
     ELSE IF \A p \in Pids : procs[p].st = "free" THEN {WsEchild}
     ELSE {NoEvent}

\* the kernel's side of a waitpid that returned ws: the event is consumed,
\* and a terminated child is released
Reaped(procs, ws) ==
  IF ws.kind \in {"Exited", "Signaled"} THEN [procs EXCEPT ![ws.pid] = FreeProc]
  ELSE IF ws.kind \in {"Stopped", "Continued"} THEN [procs EXCEPT ![ws.pid].ev = NoEvent]
  ELSE procs


\* ----------------------------------------------------------------------
\* ArrayStack<T> of open_data_structures (data_structure/array.rs).
\* T is the &str of the tests: Default is the empty string. The boxed
\* slice `a` is a function on 0..len(a)-1, so indices are the code's.
\* An operation returns the object it leaves, its return value and whether
\* it panicked.
\* ----------------------------------------------------------------------
Default == ""
Elems == {Default, "b", "r"}
Sizes == 0..MaxN
Indices == 0..(MaxN + 1)

Unit == <<>>
len(a) == Cardinality(DOMAIN a)
Max(p, q) == IF p >= q THEN p ELSE q

Ok(self, ret) == [self |-> self, ret |-> ret, panic |-> FALSE]
Panic(self) == [self |-> self, ret |-> Unit, panic |-> TRUE]

new(size) == [a |-> [k \in 0..(size - 1) |-> Default], n |-> 0]

resize(self) ==
  LET b == [k \in 0..(Max(2 * self.n, 1) - 1) |->
              IF k < self.n THEN self.a[k] ELSE Default]
  IN IF self.n > len(self.a) THEN Panic(self)
     ELSE Ok([self EXCEPT !.a = b], Unit)

size(self) == Ok(self, self.n)

get(self, i) == Ok(self, IF i < len(self.a) THEN Some(self.a[i]) ELSE None)

set(self, i, x) ==
  IF i >= len(self.a) THEN Panic(self)
  ELSE Ok([self EXCEPT !.a[i] = x], self.a[i])

\* for j in (i + 1..=n).rev(): a[j] = a[j - 1], from index j downwards
RECURSIVE add_shift(_, _, _)
add_shift(a, i, j) ==
  IF j < i + 1 THEN a
  ELSE add_shift([a EXCEPT ![j] = a[j - 1]], i, j - 1)

add_without_shift(self, i, x) ==
  LET s1 == IF self.n >= len(self.a) THEN resize(self).self ELSE self
  IN IF i >= len(s1.a) THEN Panic(s1)
     ELSE Ok([a |-> [s1.a EXCEPT ![i] = x], n |-> s1.n + 1], Unit)

add(self, i, x) ==
  LET s1 == IF self.n >= len(self.a) THEN resize(self).self ELSE self
      a1 == add_shift(s1.a, i, s1.n)
  IN IF i >= len(a1) THEN Panic([s1 EXCEPT !.a = a1])
     ELSE Ok([a |-> [a1 EXCEPT ![i] = x], n |-> s1.n + 1], Unit)

\* for j in i..hi: a[j] = a[j + 1], from index j upwards
RECURSIVE remove_shift(_, _, _)
remove_shift(a, j, hi) ==
  IF j >= hi THEN a
  ELSE remove_shift([a EXCEPT ![j] = a[j + 1]], j + 1, hi)

\* With n = 0 the subtraction self.n - 1 overflows: a build with overflow
\* checks panics there; a build without them wraps to usize::MAX, and the
\* loop shifts a[i..] down until a[j + 1] is out of bounds.
remove(self, i, overflow_checks) ==
  IF i >= len(self.a) THEN Panic(self)
  ELSE IF self.n = 0
    THEN IF overflow_checks THEN Panic(self)
         ELSE Panic([self EXCEPT !.a = remove_shift(self.a, i, len(self.a) - 1)])
    ELSE LET x == self.a[i]
             s1 == [a |-> remove_shift(self.a, i, self.n - 1), n |-> self.n - 1]
             s2 == IF len(s1.a) >= 3 * s1.n THEN resize(s1).self ELSE s1
         IN Ok(s2, x)


\* ----------------------------------------------------------------------
\* State
\* ----------------------------------------------------------------------
VARIABLES
  exit_val,      \* Worker.exit_val
  fg,            \* Worker.fg
  jobs,          \* Worker.jobs
  pgid_to_pids,  \* Worker.pgid_to_pids
  pid_to_info,   \* Worker.pid_to_info
  shell_pgid,    \* Worker.shell_pgid
  wpc,           \* Worker thread: "recv" (worker_rx.iter()), "wait" (the loop of
                 \* wait_child), "send" (inside shell_tx.send), "dead" (panicked)
  wret,          \* where the Worker goes on after the send: "recv" or "wait"
  SIGCHILD,      \* the number bound by the pattern Signal(SIGCHILD) while the
                 \* Worker is in that arm; 0 outside of it
  shell_tx,      \* the message the Worker is handing over on the rendezvous channel
  worker_rx,     \* the Worker's inbound channel
  signals,       \* signals raised for the shell and not yet forwarded
  rpc,           \* Reader thread: "prompt" (rl.readline), "recv", "recv_eof"
                 \* (shell_rx.recv), "exited" (exit), "panic"
  exit_code,     \* the status the shell process exited with
  procs,         \* kernel: the shell's child processes
  tty,           \* kernel: foreground process group of the terminal
  pipe,          \* the pipe descriptors open in the shell process
  replies,       \* replies the Worker has sent since the Reader's last Cmd
  sent,          \* the line of the Cmd the Reader waits for the reply to
  nev,           \* number of events the children and the outside world have produced
  line_in,       \* parse_cmd on its own: the line it is called with
  parsed,        \* parse_cmd on its own: None before the call, Some(result) after
  array,         \* the ArrayStack on its own: its fields a and n
  call           \* the ArrayStack on its own: the last call, its arguments, its
                 \* return value and whether it panicked

shell_vars == <<exit_val, fg, jobs, pgid_to_pids, pid_to_info, shell_pgid, wpc, wret, SIGCHILD,
                shell_tx, worker_rx, signals, rpc, exit_code, procs, tty,
                pipe, replies, sent, nev>>

parse_vars == <<line_in, parsed>>

array_vars == <<array, call>>

vars == <<shell_vars, parse_vars, array_vars>>

worker_vars == <<exit_val, fg, jobs, pgid_to_pids, pid_to_info, shell_pgid>>

\* The lines the user types
Lines ==
  { <<"a">>,
    <<"a", " ", "|", "b">>,
    <<"a", "|", "b", "|", "c">>,
    <<"a", "|", " ">>,
    <<" ">>,
    S_exit,
    S_exit \o <<" ", "3">>,
    S_exit \o <<" ", "x">>,
    S_exit \o <<" ", "3", " ", "x">>,
    S_jobs,
    S_cd,
    S_fg,
    S_fg \o <<" ", "x">>,
    S_fg \o <<" ", "0">>,
    S_fg \o <<" ", "0", " ", "0">>,
    S_fg \o <<" ", "0", " ", "x">> }

\* Worker::new and the start of Shell::run
ShellInit ==
  /\ exit_val = 0
  /\ fg = None
  /\ jobs = EmptyMap
  /\ pgid_to_pids = EmptyMap
  /\ pid_to_info = EmptyMap
  /\ shell_pgid = ShellPgid
  /\ wpc = "recv"
  /\ wret = "recv"
  /\ SIGCHILD = 0
  /\ shell_tx = <<>>
  /\ worker_rx = <<>>
  /\ signals = {}
  /\ rpc = "prompt"
  /\ exit_code = 0
  /\ procs = [p \in Pids |-> FreeProc]
  /\ tty = ShellPgid
  /\ pipe = NoPipe
  /\ replies = 0
  /\ sent = <<>>
  /\ nev = 0

\* the last call of a freshly constructed ArrayStack
Constructed(sz) == [op |-> "new", args |-> <<sz>>, ret |-> Unit, panic |-> FALSE]

NoArray == array = new(0) /\ call = Constructed(0)

Init == ShellInit /\ line_in = <<>> /\ parsed = None /\ NoArray

\* the shell process is running (neither exit() nor a panic of the main thread)
Running == rpc \notin {"exited", "panic"}

\* The machine a handler starts on
Machine ==
  [exit_val |-> exit_val, fg |-> fg, jobs |-> jobs, pgid_to_pids |-> pgid_to_pids,
   pid_to_info |-> pid_to_info, shell_pgid |-> shell_pgid, tty |-> tty,
   procs |-> procs, pipe |-> pipe, out |-> <<>>, panic |-> FALSE, chld |-> FALSE,
   ret |-> FALSE]

\* The state a handler leaves behind; cont is where the Worker goes on
Commit(m, cont) ==
  /\ exit_val' = m.exit_val
  /\ fg' = m.fg
  /\ jobs' = m.jobs
  /\ pgid_to_pids' = m.pgid_to_pids
  /\ pid_to_info' = m.pid_to_info
  /\ shell_pgid' = m.shell_pgid
  /\ tty' = m.tty
  /\ procs' = m.procs
  /\ pipe' = m.pipe
  /\ signals' = IF m.chld THEN signals \cup {SIGCHLD} ELSE signals
  /\ shell_tx' = m.out
  /\ replies' = replies + Len(m.out)
  /\ wret' = IF m.out # <<>> THEN cont ELSE "recv"
  /\ wpc' = IF m.panic THEN "dead" ELSE IF m.out # <<>> THEN "send" ELSE cont

\* ----------------------------------------------------------------------
\* Reader (Shell::run)
\* ----------------------------------------------------------------------
\* a Reader that sends the line and reads the next one without waiting
ReaderCmd_without_recv(line) ==
  /\ Running /\ rpc = "prompt"
  /\ Trim(line) # <<>>
  /\ wpc # "dead"
  /\ worker_rx' = Append(worker_rx, MsgCmd(line))
  /\ replies' = 0
  /\ sent' = line
  /\ UNCHANGED <<worker_vars, wpc, wret, SIGCHILD, shell_tx, signals, rpc, exit_code,
                 procs, tty, pipe, nev, parse_vars, array_vars>>

\* readline returned a line that is not empty after trimming
ReaderCmd(line) ==
  /\ Running /\ rpc = "prompt"
  /\ Trim(line) # <<>>
  /\ IF wpc = "dead"
     THEN /\ rpc' = "panic"
          /\ UNCHANGED <<worker_rx, replies, sent>>
     ELSE /\ worker_rx' = Append(worker_rx, MsgCmd(line))
          /\ rpc' = "recv"
          /\ replies' = 0
          /\ sent' = line
  /\ UNCHANGED <<worker_vars, wpc, wret, SIGCHILD, shell_tx, signals, exit_code,
                 procs, tty, pipe, nev, parse_vars, array_vars>>

\* readline returned an empty line, or Err(Interrupted): the loop goes on
ReaderContinue(line) ==
  /\ Running /\ rpc = "prompt"
  /\ Trim(line) = <<>>
  /\ UNCHANGED vars

\* readline returned Err(Eof)
ReaderEof ==
  /\ Running /\ rpc = "prompt"
  /\ IF wpc = "dead"
     THEN /\ rpc' = "panic"
          /\ UNCHANGED <<worker_rx, replies, sent>>
     ELSE /\ worker_rx' = Append(worker_rx, MsgCmd(S_exit))
          /\ rpc' = "recv_eof"
          /\ replies' = 0
          /\ sent' = S_exit
  /\ UNCHANGED <<worker_vars, wpc, wret, SIGCHILD, shell_tx, signals, exit_code,
                 procs, tty, pipe, nev, parse_vars, array_vars>>

\* readline returned another error
ReaderError ==
  /\ Running /\ rpc = "prompt"
  /\ rpc' = "exited"
  /\ exit_code' = 1
  /\ UNCHANGED <<worker_vars, wpc, wret, SIGCHILD, shell_tx, worker_rx, signals, procs, tty, pipe,
                 replies, sent, nev, parse_vars, array_vars>>

\* shell_rx.recv() meets the Worker's shell_tx.send()
ReaderRecv ==
  /\ Running /\ rpc \in {"recv", "recv_eof"}
  /\ wpc = "send"
  /\ LET msg == shell_tx[1]
     IN /\ rpc' = IF msg.type = "Quit" THEN "exited"
                  ELSE IF rpc = "recv" THEN "prompt" ELSE "panic"
        /\ exit_code' = IF msg.type = "Quit" THEN msg.code ELSE exit_code
  /\ shell_tx' = <<>>
  /\ wpc' = wret
  /\ wret' = "recv"
  /\ sent' = <<>>
  /\ UNCHANGED <<worker_vars, SIGCHILD, worker_rx, signals, procs, tty, pipe,
                 replies, nev, parse_vars, array_vars>>

\* shell_rx.recv() returns Err because the Worker thread has panicked
ReaderRecvErr ==
  /\ Running /\ rpc \in {"recv", "recv_eof"}
  /\ wpc = "dead"
  /\ rpc' = "panic"
  /\ UNCHANGED <<worker_vars, wpc, wret, SIGCHILD, shell_tx, worker_rx, signals, exit_code, sent, procs, tty, pipe, replies, nev, parse_vars, array_vars>>

\* ----------------------------------------------------------------------
\* Signal forwarder (spawn_sig_handler)
\* ----------------------------------------------------------------------
NumSignals(q) == Cardinality({i \in 1..Len(q) : q[i].type = "Signal"})

Forward(sig) ==
  /\ Running /\ wpc # "dead"
  /\ sig \in signals
  /\ NumSignals(worker_rx) < MaxSignals
  /\ signals' = signals \ {sig}
  /\ worker_rx' = Append(worker_rx, MsgSignal(sig))
  /\ UNCHANGED <<worker_vars, wpc, wret, SIGCHILD, shell_tx, rpc, exit_code, sent, procs,
                 tty, pipe, replies, nev, parse_vars, array_vars>>

\* ----------------------------------------------------------------------
\* Worker (Worker::spawn)
\* ----------------------------------------------------------------------
\* the results the two fork calls of spawn_child may have
ForkResults ==
  {<<r1, r2>> \in (ForkablePids(procs) \cup {0}) \X (ForkablePids(procs) \cup {0}) :
      r1 = 0 \/ r1 # r2}

WorkerCmd ==
  /\ Running /\ wpc = "recv"
  /\ worker_rx # <<>> /\ Head(worker_rx).type = "Cmd"
  /\ \E r \in ForkResults :
       LET m == handle_cmd(Machine, Head(worker_rx).line, r[1], r[2])
       IN Commit(m, "recv")
  /\ worker_rx' = Tail(worker_rx)
  /\ UNCHANGED <<SIGCHILD, rpc, exit_code, sent, nev, parse_vars, array_vars>>

\* `WorkerMsg::Signal(SIGCHILD)`: SIGCHILD names no constant, so the pattern
\* binds the number and the arm takes every signal
WorkerSignal ==
  /\ Running /\ wpc = "recv"
  /\ worker_rx # <<>> /\ Head(worker_rx).type = "Signal"
  /\ worker_rx' = Tail(worker_rx)
  /\ SIGCHILD' = Head(worker_rx).sig
  /\ wpc' = "wait"
  /\ UNCHANGED <<worker_vars, wret, shell_tx, signals, rpc, exit_code, sent,
                 procs, tty, pipe, replies, nev, parse_vars, array_vars>>

\* one waitpid call of wait_child and the arm it selects
WaitChild ==
  /\ Running /\ wpc = "wait"
  /\ \E w \in WaitResults(procs) :
       LET m == wait_child([Machine EXCEPT !.procs = Reaped(procs, w)], w)
       IN /\ Commit(m, IF m.ret THEN "wait" ELSE "recv")
          /\ SIGCHILD' = IF m.ret /\ ~m.panic THEN SIGCHILD ELSE 0
  /\ UNCHANGED <<worker_rx, rpc, exit_code, sent, nev, parse_vars, array_vars>>

\* ----------------------------------------------------------------------
\* Kernel: what the children and the outside world do
\* ----------------------------------------------------------------------
\* a running child calls exit(status) (status 1: execvp failed)
ChildExit(p, status) ==
  /\ Running /\ wpc # "dead" /\ nev < MaxEvents /\ procs[p].st = "run"
  /\ procs' = [procs EXCEPT ![p].st = "zombie", ![p].ev = WsExited(p, status)]
  /\ signals' = signals \cup {SIGCHLD}
  /\ nev' = nev + 1
  /\ UNCHANGED <<worker_vars, wpc, wret, SIGCHILD, shell_tx, worker_rx, rpc, exit_code, sent, tty, pipe, replies, parse_vars, array_vars>>

\* a child is killed by a signal
ChildSignaled(p, sig) ==
  /\ Running /\ wpc # "dead" /\ nev < MaxEvents /\ procs[p].st \in {"run", "stop"}
  /\ procs' = [procs EXCEPT ![p].st = "zombie", ![p].ev = WsSignaled(p, sig)]
  /\ signals' = signals \cup {SIGCHLD}
  /\ nev' = nev + 1
  /\ UNCHANGED <<worker_vars, wpc, wret, SIGCHILD, shell_tx, worker_rx, rpc, exit_code, sent, tty, pipe, replies, parse_vars, array_vars>>

\* a running child is stopped (SIGTSTP from the terminal, SIGSTOP, SIGTTIN)
ChildStop(p) ==
  /\ Running /\ wpc # "dead" /\ nev < MaxEvents /\ procs[p].st = "run"
  /\ procs' = [procs EXCEPT ![p].st = "stop", ![p].ev = WsStopped(p)]
  /\ signals' = signals \cup {SIGCHLD}
  /\ nev' = nev + 1
  /\ UNCHANGED <<worker_vars, wpc, wret, SIGCHILD, shell_tx, worker_rx, rpc, exit_code, sent, tty, pipe, replies, parse_vars, array_vars>>

\* a stopped child gets SIGCONT from outside the shell
ChildCont(p) ==
  /\ Running /\ wpc # "dead" /\ nev < MaxEvents /\ procs[p].st = "stop"
  /\ procs' = [procs EXCEPT ![p].st = "run", ![p].ev = WsContinued(p)]
  /\ signals' = signals \cup {SIGCHLD}
  /\ nev' = nev + 1
  /\ UNCHANGED <<worker_vars, wpc, wret, SIGCHILD, shell_tx, worker_rx, rpc, exit_code, sent, tty, pipe, replies, parse_vars, array_vars>>

\* SIGINT or SIGTSTP is raised for the shell process
ShellSignal(sig) ==
  /\ Running /\ wpc # "dead" /\ nev < MaxEvents
  /\ signals \cap {SIGINT, SIGTSTP} = {}
  /\ signals' = signals \cup {sig}
  /\ nev' = nev + 1
  /\ UNCHANGED <<worker_vars, wpc, wret, SIGCHILD, shell_tx, worker_rx, rpc, exit_code, sent, procs, tty, pipe, replies, parse_vars, array_vars>>

Next ==
  \/ \E line \in Lines : ReaderCmd(line)
  \/ \E line \in Lines : ReaderContinue(line)
  \/ ReaderEof
  \/ ReaderError
  \/ ReaderRecv
  \/ ReaderRecvErr
  \/ \E sig \in {SIGINT, SIGTSTP, SIGCHLD} : Forward(sig)
  \/ WorkerCmd
  \/ WorkerSignal
  \/ WaitChild
  \/ \E p \in Pids, status \in ExitStatuses : ChildExit(p, status)
  \/ \E p \in Pids, sig \in TermSignals : ChildSignaled(p, sig)
  \/ \E p \in Pids : ChildStop(p)
  \/ \E p \in Pids : ChildCont(p)
  \/ \E sig \in {SIGINT, SIGTSTP} : ShellSignal(sig)

Spec == Init /\ [][Next]_vars

\* ----------------------------------------------------------------------
\* parse_cmd on its own: called once with any line of at most MaxLen
\* characters
\* ----------------------------------------------------------------------
Alphabet == {"a", "b", " ", "\t", "|"}
InputLines == UNION {[1..n -> Alphabet] : n \in 0..MaxLen}

ParseInit == ShellInit /\ line_in \in InputLines /\ parsed = None /\ NoArray

ParseCall ==
  /\ parsed = None
  /\ parsed' = Some(parse_cmd(line_in))
  /\ UNCHANGED <<shell_vars, line_in, array_vars>>

ParseNext == ParseCall

ParseSpec == ParseInit /\ [][ParseNext]_vars

\* ----------------------------------------------------------------------
\* ArrayStack on its own: constructed with any size up to MaxN, then any
\* sequence of calls with any index up to MaxN + 1; add is not called once
\* n has reached MaxN. A panic ends the sequence.
\* ----------------------------------------------------------------------
ArrayInit ==
  /\ ShellInit /\ line_in = <<>> /\ parsed = None
  /\ \E sz \in Sizes : array = new(sz) /\ call = Constructed(sz)

Alive == ~call.panic

\* the call op(args) returned r
Returns(op, args, r) ==
  /\ array' = r.self
  /\ call' = [op |-> op, args |-> args, ret |-> r.ret, panic |-> r.panic]
  /\ UNCHANGED <<shell_vars, parse_vars>>

Resize == Alive /\ Returns("resize", <<>>, resize(array))

Size == Alive /\ Returns("size", <<>>, size(array))

Get(i) == Alive /\ Returns("get", <<i>>, get(array, i))

Set(i, x) == Alive /\ Returns("set", <<i, x>>, set(array, i, x))

Add(i, x) == Alive /\ array.n < MaxN /\ Returns("add", <<i, x>>, add(array, i, x))

Remove(i) ==
  /\ Alive
  /\ \E overflow_checks \in BOOLEAN :
       Returns("remove", <<i>>, remove(array, i, overflow_checks))

ArrayNext ==
  \/ Resize
  \/ Size
  \/ \E i \in Indices : Get(i)
  \/ \E i \in Indices, x \in Elems : Set(i, x)
  \/ \E i \in Indices, x \in Elems : Add(i, x)
  \/ \E i \in Indices : Remove(i)

ArraySpec == ArrayInit /\ [][ArrayNext]_vars


\* ----------------------------------------------------------------------
\* Vocabulary of the properties
\* ----------------------------------------------------------------------
\* the Reader is inside shell_rx.recv()
ReaderWaits == rpc \in {"recv", "recv_eof"}

\* the Reader's Cmd is still in the Worker's inbound channel
CmdQueued == \E i \in 1..Len(worker_rx) : worker_rx[i].type = "Cmd"

\* this step is the Worker taking a Cmd from its channel and handling it
TakesCmd ==
  /\ wpc = "recv" /\ worker_rx # <<>> /\ Head(worker_rx).type = "Cmd"
  /\ worker_rx' = Tail(worker_rx)

\* the stages of the Cmd at the head of the channel
HeadCmds == parse_cmd(Head(worker_rx).line).cmds

\* this step handles the built-in `exit`
TakesExit ==
  /\ TakesCmd
  /\ parse_cmd(Head(worker_rx).line).ok
  /\ Len(HeadCmds) = 1 /\ HeadCmds[1].cmd = S_exit

\* this step handles the single-stage command called name
TakesBuiltin(name) ==
  /\ TakesCmd
  /\ parse_cmd(Head(worker_rx).line).ok
  /\ Len(HeadCmds) = 1 /\ HeadCmds[1].cmd = name

\* the words after the command name of the Cmd at the head of the channel
HeadArgs == HeadCmds[1].args

\* the Worker fields that hold the job tables
tables == <<jobs, pgid_to_pids, pid_to_info>>

\* the Worker has handled the Cmd of the line l and is handing msg to the Reader
Answered(l, msg) == rpc = "recv" /\ sent = l /\ wpc = "send" /\ shell_tx = <<msg>>

\* this step is the waitpid call that reaps the termination of p
Reaps(p) == wpc = "wait" /\ procs[p].st = "zombie" /\ procs'[p].st = "free"

\* p is the last pid of the foreground job, as the Worker records it
LastOfForeground(p) ==
  /\ p \in DOMAIN pid_to_info
  /\ pid_to_info[p].pgid \in DOMAIN pgid_to_pids
  /\ pgid_to_pids[pid_to_info[p].pgid].pids = {p}
  /\ fg = Some(pid_to_info[p].pgid)

\* this step is the waitpid call that reports the stop of p
ReapsStop(p) ==
  wpc = "wait" /\ procs[p].ev.kind = "Stopped" /\ procs'[p].ev.kind = "StillAlive"

\* p belongs to the foreground group g, and every other pid of g is recorded as stopped
LastRunningOfForeground(p, g) ==
  /\ p \in DOMAIN pid_to_info
  /\ g = pid_to_info[p].pgid
  /\ g \in DOMAIN pgid_to_pids
  /\ p \in pgid_to_pids[g].pids
  /\ fg = Some(g)
  /\ \A q \in pgid_to_pids[g].pids \ {p} : pid_to_info[q].state = "Stop"

\* the names build_in_cmd knows
BuiltinNames == {S_exit, S_jobs, S_fg, S_cd}

\* this step takes a Cmd that parses and is handed to spawn_child
TakesSpawn ==
  /\ TakesCmd
  /\ parse_cmd(Head(worker_rx).line).ok
  /\ Len(HeadCmds) > 1 \/ HeadCmds[1].cmd \notin BuiltinNames

\* the children this step has forked, and the first of them (its own group)
Forked == {p \in Pids : procs[p].st = "free" /\ procs'[p].st # "free"}
Leader == CHOOSE p \in Forked : procs'[p].pgid = p

\* the Worker is in wait_child on behalf of a Signal(n) with n other than SIGCHLD
HandlesOtherSignal == wpc = "wait" /\ SIGCHILD # SIGCHLD

\* this step is a waitpid call that reports a state change of p
ReapsEvent(p) ==
  wpc = "wait" /\ procs[p].ev.kind # "StillAlive" /\ procs'[p].ev.kind = "StillAlive"

\* this step is the waitpid call that reports that p was continued
ReapsContinue(p) ==
  wpc = "wait" /\ procs[p].ev.kind = "Continued" /\ procs'[p].ev.kind = "StillAlive"

\* the Cmd messages of a channel
NumCmds(q) == Cardinality({i \in 1..Len(q) : q[i].type = "Cmd"})

\* the positions of the "|" characters of a line, and the k-th of them
Bars(l) == {i \in 1..Len(l) : l[i] = "|"}
KthBar(l, k) == CHOOSE i \in Bars(l) : Cardinality({j \in Bars(l) : j < i}) = k - 1

\* the stages of a line are the stretches between its bars
NumStages(l) == Cardinality(Bars(l)) + 1
StageLo(l, k) == IF k = 1 THEN 1 ELSE KthBar(l, k - 1) + 1
StageHi(l, k) == IF k = NumStages(l) THEN Len(l) ELSE KthBar(l, k) - 1

\* the positions of stage k at which a token starts: a character that is
\* not white and follows a white one or opens the stage
TokenStarts(l, k) ==
  {i \in StageLo(l, k)..StageHi(l, k) :
     ~IsWhite(l[i]) /\ (i = StageLo(l, k) \/ IsWhite(l[i - 1]))}

\* the token that starts at position i of stage k
TokenAt(l, k, i) ==
  LET ends == {e \in i..StageHi(l, k) : \A j \in i..e : ~IsWhite(l[j])}
  IN SubSeq(l, i, CHOOSE e \in ends : \A f \in ends : f <= e)

\* the tokens of stage k, from left to right
StageTokens(l, k) ==
  [n \in 1..Cardinality(TokenStarts(l, k)) |->
     TokenAt(l, k, CHOOSE i \in TokenStarts(l, k) :
                     Cardinality({j \in TokenStarts(l, k) : j < i}) = n - 1)]

\* p is recorded as a member of the group g
MemberOf(p, g) ==
  /\ p \in DOMAIN pid_to_info
  /\ g = pid_to_info[p].pgid
  /\ g \in DOMAIN pgid_to_pids
  /\ p \in pgid_to_pids[g].pids

\* this step is the waitpid call that reports that p exited, was killed or stopped
ReapsTermOrStop(p) ==
  ReapsEvent(p) /\ procs[p].ev.kind \in {"Exited", "Signaled", "Stopped"}

\* a state change of a child that waitpid has not reported yet
EventPending(ps) == \E p \in Pids : ps[p].ev.kind # "StillAlive"

\* this step ends the handling of a Signal: wait_child returns, or panics
SignalHandled == wpc = "wait" /\ wpc' \in {"recv", "dead"}

\* this step is wait_child reporting the foreground job as stopped
ReportsStopped == wpc = "wait" /\ fg # None /\ fg' = None /\ shell_tx' # <<>>

\* the Reader's outstanding Cmd is an `fg` that the Worker has taken and
\* not answered: it resumed a job
FgOutstanding ==
  /\ rpc = "recv" /\ ~CmdQueued /\ replies = 0
  /\ parse_cmd(sent).ok
  /\ Len(parse_cmd(sent).cmds) = 1
  /\ parse_cmd(sent).cmds[1].cmd = S_fg

\* ----------------------------------------------------------------------
\* C1: every Cmd gets exactly one reply: the Reader is never left waiting
\* with its Cmd consumed, the Worker back in its receive loop (or gone) and
\* no foreground job that could still produce the reply; and no Cmd gets
\* more than one reply.
\* ----------------------------------------------------------------------
C1_ExactlyOneReply ==
  /\ replies <= 1
  /\ (ReaderWaits /\ ~CmdQueued /\ wpc \in {"recv", "dead"})
       => (wpc = "recv" /\ fg # None)

\* ----------------------------------------------------------------------
\* C2: reaping Exited(p, status) for the last process of the foreground job
\* removes the job and its group, sets fg to None, hands the terminal back
\* to shell_pgid and sends Continue(status), and the Worker lives on.
\* ----------------------------------------------------------------------
C2_ForegroundExitHandsBack ==
  [][\A p \in Pids :
       (Reaps(p) /\ procs[p].ev.kind = "Exited" /\ LastOfForeground(p))
         => LET g == pid_to_info[p].pgid
                j == pgid_to_pids[g].job_id
            IN /\ j \notin DOMAIN jobs'
               /\ g \notin DOMAIN pgid_to_pids'
               /\ fg' = None
               /\ tty' = shell_pgid
               /\ shell_tx' = <<Continue(procs[p].ev.val)>>
               /\ wpc' = "send"]_vars

\* ----------------------------------------------------------------------
\* C3: after every handler, the keys of pid_to_info are exactly the pids of
\* the groups of pgid_to_pids.
\* ----------------------------------------------------------------------
C3_PidTablesAgree ==
  wpc = "recv" =>
    DOMAIN pid_to_info = UNION {pgid_to_pids[g].pids : g \in DOMAIN pgid_to_pids}

\* ----------------------------------------------------------------------
\* C4: every job of jobs points at a group of pgid_to_pids that is owned by
\* that job.
\* ----------------------------------------------------------------------
C4_JobsPointAtTheirGroup ==
  wpc # "dead" =>
    \A j \in DOMAIN jobs :
      /\ jobs[j].pgid \in DOMAIN pgid_to_pids
      /\ pgid_to_pids[jobs[j].pgid].job_id = j

\* two jobs are registered (the first one stopped, then a second spawn)
C4_Witness ==
  /\ wpc = "recv"
  /\ Cardinality(DOMAIN jobs) = 2
  /\ \E p \in DOMAIN pid_to_info : pid_to_info[p].state = "Stop"

\* ----------------------------------------------------------------------
\* C5: a job that enters jobs gets the smallest id that was not in jobs.
\* ----------------------------------------------------------------------
C5_SmallestFreeJobId ==
  [][\A j \in (DOMAIN jobs') \ (DOMAIN jobs) :
       \A i \in 0..(j - 1) : i \in DOMAIN jobs]_vars

\* job 1 was created while job 0 was still there
C5_Witness == DOMAIN jobs = {0, 1} /\ wpc = "recv"

\* ----------------------------------------------------------------------
\* C6: between messages the terminal belongs to shell_pgid exactly when fg
\* is None, and to g when fg is Some(g).
\* ----------------------------------------------------------------------
C6_TerminalFollowsFg ==
  wpc = "recv" =>
    /\ (tty = shell_pgid) <=> (fg = None)
    /\ fg # None => tty = Unwrap(fg)

\* a stopped job has handed the terminal back and the Reader has been told
C6_Witness ==
  /\ wpc = "recv" /\ rpc = "prompt"
  /\ DOMAIN jobs # {}
  /\ fg = None /\ tty = shell_pgid

\* ----------------------------------------------------------------------
\* C7: no pipe descriptor of spawn_child stays open in the parent, and none
\* is closed twice.
\* ----------------------------------------------------------------------
C7_PipeClosedOnce == pipe.open = {} /\ ~pipe.ebadf

\* a two-stage spawn failed at its second fork: its leader runs, unknown to
\* the tables
C7_Witness ==
  /\ wpc # "dead"
  /\ \E p \in Pids : procs[p].st # "free" /\ p \notin DOMAIN pid_to_info

\* ----------------------------------------------------------------------
\* C8: the reply to the `exit` the Reader sends at end-of-file is a Quit.
\* ----------------------------------------------------------------------
C8_EofGetsQuit ==
  (rpc = "recv_eof" /\ wpc = "send") => shell_tx[1].type = "Quit"

\* ----------------------------------------------------------------------
\* C9: `exit` with jobs non-empty sets exit_val to 1, replies Continue(1)
\* and leaves the tables and fg alone; a Quit is only sent with jobs empty.
\* ----------------------------------------------------------------------
C9_ExitRefusedWithJobs ==
  /\ [][(TakesExit /\ DOMAIN jobs # {})
          => /\ exit_val' = 1
             /\ shell_tx' = <<Continue(1)>>
             /\ UNCHANGED <<jobs, pgid_to_pids, pid_to_info, fg>>]_vars
  /\ []((shell_tx # <<>> /\ shell_tx[1].type = "Quit") => DOMAIN jobs = {})

\* the `exit` of an end-of-file has been refused because a job is there
C9_Witness ==
  /\ rpc = "recv_eof" /\ wpc = "send"
  /\ shell_tx = <<Continue(1)>>
  /\ DOMAIN jobs # {}

\* ----------------------------------------------------------------------
\* C10: with jobs empty, `exit N` replies Quit(N) and `exit` replies
\* Quit(exit_val); the shell process exits with the code of the Quit.
\* ----------------------------------------------------------------------
C10_ExitCode ==
  /\ [][(TakesExit /\ DOMAIN jobs = {})
          => LET args == HeadCmds[1].args
             IN /\ args = <<>> => shell_tx' = <<Quit(exit_val)>>
                /\ (Len(args) = 1 /\ ParseI32(args[1]).ok)
                     => shell_tx' = <<Quit(ParseI32(args[1]).val)>>]_vars
  /\ [][(rpc' = "exited" /\ shell_tx # <<>> /\ shell_tx[1].type = "Quit")
          => exit_code' = shell_tx[1].code]_vars

\* ----------------------------------------------------------------------
\* C11: with jobs empty, `exit X` with X not an integer sets exit_val to 1
\* and replies Continue(1); no Quit is sent.
\* ----------------------------------------------------------------------
C11_ExitNonInteger ==
  [][(TakesExit /\ DOMAIN jobs = {} /\ Len(HeadArgs) = 1 /\ ~ParseI32(HeadArgs[1]).ok)
       => /\ exit_val' = 1
          /\ shell_tx' = <<Continue(1)>>]_vars

\* ----------------------------------------------------------------------
\* C12: `fg <id>` with id a key of jobs makes the job's group the foreground
\* group (fg and terminal), continues its stopped processes and sends no
\* reply in that step.
\* ----------------------------------------------------------------------
C12_FgResumesJob ==
  [][(/\ TakesBuiltin(S_fg)
      /\ Len(HeadArgs) = 1
      /\ ParseUsize(HeadArgs[1]).ok
      /\ ParseUsize(HeadArgs[1]).val \in DOMAIN jobs)
       => LET g == jobs[ParseUsize(HeadArgs[1]).val].pgid
          IN /\ fg' = Some(g)
             /\ tty' = g
             /\ \A p \in Pids : procs[p].pgid = g => procs'[p].st # "stop"
             /\ shell_tx' = <<>>]_vars

\* ----------------------------------------------------------------------
\* C13: `fg` with no argument, with a non-numeric argument or with an id
\* that is no key of jobs sets exit_val to 1, replies Continue(1) once,
\* leaves fg, the terminal and the three tables alone and does not panic.
\* ----------------------------------------------------------------------
C13_FgError ==
  [][(/\ TakesBuiltin(S_fg)
      /\ \/ HeadArgs = <<>>
         \/ /\ Len(HeadArgs) = 1
            /\ \/ ~ParseUsize(HeadArgs[1]).ok
               \/ ParseUsize(HeadArgs[1]).val \notin DOMAIN jobs)
       => /\ exit_val' = 1
          /\ shell_tx' = <<Continue(1)>>
          /\ wpc' = "send"
          /\ UNCHANGED <<fg, tty, tables>>]_vars

\* `fg x` has been refused while a stopped job is in the tables
C13_Witness ==
  /\ Answered(S_fg \o <<" ", "x">>, Continue(1))
  /\ exit_val = 1
  /\ DOMAIN jobs # {}

\* ----------------------------------------------------------------------
\* C14: `jobs` and `cd` each send exactly one Continue to the Reader.
\* ----------------------------------------------------------------------
C14_JobsAndCdReply ==
  [][(TakesBuiltin(S_jobs) \/ TakesBuiltin(S_cd))
       => /\ Len(shell_tx') = 1
          /\ shell_tx'[1].type = "Continue"]_vars

\* ----------------------------------------------------------------------
\* C15: when the Stopped event of p leaves every process of the foreground
\* group recorded as stopped, the Worker sets fg to None, gives the terminal
\* to shell_pgid and sends Continue(exit_val) once; p is recorded as stopped,
\* and the job and its group stay in jobs and pgid_to_pids as they were.
\* ----------------------------------------------------------------------
C15_StopHandsBack ==
  [][\A p \in Pids : \A g \in Pids :
       (ReapsStop(p) /\ LastRunningOfForeground(p, g))
         => /\ fg' = None
            /\ tty' = shell_pgid
            /\ shell_tx' = <<Continue(exit_val)>>
            /\ exit_val' = exit_val
            /\ pid_to_info' = [pid_to_info EXCEPT ![p].state = "Stop"]
            /\ UNCHANGED <<jobs, pgid_to_pids>>]_vars

\* both processes of a two-stage job are stopped and the Worker, still in
\* wait_child, is handing the Continue over
C15_Witness ==
  /\ wpc = "send" /\ wret = "wait"
  /\ shell_tx = <<Continue(exit_val)>>
  /\ fg = None /\ tty = shell_pgid
  /\ \E g \in DOMAIN pgid_to_pids :
       /\ Cardinality(pgid_to_pids[g].pids) = 2
       /\ \A q \in pgid_to_pids[g].pids : pid_to_info[q].state = "Stop"
       /\ \E j \in DOMAIN jobs : jobs[j].pgid = g

\* ----------------------------------------------------------------------
\* C16: after a spawn_child of a one- or two-stage pipeline in which every
\* fork succeeded and that returned, with L the first child: a new job id j
\* has jobs[j] = (L, line); pgid_to_pids[L] = (j, the forked pids); every
\* forked pid is in pid_to_info as (Run, L); fg = Some(L); the terminal's
\* foreground group is L; nothing has been sent to the Reader.
\* ----------------------------------------------------------------------
C16_SpawnRegistersJob ==
  [][(/\ TakesSpawn
      /\ Len(HeadCmds) <= 2
      /\ Cardinality(Forked) = Len(HeadCmds)
      /\ wpc' # "dead")
       => /\ \E j \in (DOMAIN jobs') \ (DOMAIN jobs) :
               /\ jobs' = MapPut(jobs, j, [pgid |-> Leader, line |-> Head(worker_rx).line])
               /\ pgid_to_pids' = MapPut(pgid_to_pids, Leader,
                                         [job_id |-> j, pids |-> Forked])
          /\ DOMAIN pid_to_info' = (DOMAIN pid_to_info) \cup Forked
          /\ \A p \in Forked : pid_to_info'[p] = ProcInfo("Run", Leader)
          /\ \A p \in DOMAIN pid_to_info : pid_to_info'[p] = pid_to_info[p]
          /\ fg' = Some(Leader)
          /\ tty' = Leader
          /\ shell_tx' = <<>>
          /\ wpc' = "recv"]_vars

\* the two-stage job `a |b` has just been registered and runs in the foreground
C16_Witness ==
  /\ rpc = "recv" /\ sent = <<"a", " ", "|", "b">> /\ ~CmdQueued
  /\ wpc = "recv" /\ replies = 0
  /\ \E j \in DOMAIN jobs :
       /\ jobs[j].line = sent
       /\ fg = Some(jobs[j].pgid) /\ tty = jobs[j].pgid
       /\ Cardinality(pgid_to_pids[jobs[j].pgid].pids) = 2
       /\ \A p \in pgid_to_pids[jobs[j].pgid].pids :
            pid_to_info[p] = ProcInfo("Run", jobs[j].pgid)

\* ----------------------------------------------------------------------
\* C17: when spawn_child fails (more than two stages, or a fork that fails)
\* nothing enters jobs, pgid_to_pids or pid_to_info, fg, the terminal and
\* exit_val stay as they are and the Worker sends Continue(exit_val) once;
\* a pipeline of more than two stages forks no process.
\* ----------------------------------------------------------------------
C17_SpawnFailureFrame ==
  [][(/\ TakesSpawn
      /\ Len(HeadCmds) > 2 \/ Cardinality(Forked) < Len(HeadCmds))
       => /\ UNCHANGED <<tables, fg, tty, exit_val>>
          /\ shell_tx' = <<Continue(exit_val)>>
          /\ wpc' = "send"
          /\ Len(HeadCmds) > 2 => procs' = procs]_vars

\* the second fork of `a |b` failed: the Worker reports the failure, the
\* tables are empty, and the first child runs
C17_Witness ==
  /\ Answered(<<"a", " ", "|", "b">>, Continue(exit_val))
  /\ DOMAIN jobs = {} /\ DOMAIN pid_to_info = {} /\ fg = None /\ tty = shell_pgid
  /\ \E p \in Pids : procs[p].st = "run"

\* ----------------------------------------------------------------------
\* C18: a Cmd whose line does not parse sets exit_val to 1, is answered
\* with Continue(1) and leaves the job tables and fg alone.
\* ----------------------------------------------------------------------
C18_ParseError ==
  [][(TakesCmd /\ ~parse_cmd(Head(worker_rx).line).ok)
       => /\ exit_val' = 1
          /\ shell_tx' = <<Continue(1)>>
          /\ UNCHANGED <<tables, fg>>]_vars

\* ----------------------------------------------------------------------
\* C19: while the Worker handles a Signal(n) with n other than SIGCHLD it
\* reaps no child event, even when one is pending, leaves exit_val, fg and
\* the three tables as they are and sends no reply.
\* ----------------------------------------------------------------------
C19_OtherSignalsIgnored ==
  [][HandlesOtherSignal
       => /\ \A p \in Pids : ~ReapsEvent(p)
          /\ shell_tx' = <<>>
          /\ UNCHANGED <<exit_val, fg, tables>>]_vars

\* ----------------------------------------------------------------------
\* C20: a Continued(p) event never produces a reply and changes nothing
\* but the recorded state of p, which becomes Run; for a p already recorded
\* as Run every table, fg and exit_val are unchanged.
\* ----------------------------------------------------------------------
C20_ContinuedIsSilent ==
  [][\A p \in Pids :
       ReapsContinue(p)
         => /\ shell_tx' = <<>>
            /\ wpc' = "wait"
            /\ UNCHANGED <<exit_val, fg, jobs, pgid_to_pids>>
            /\ p \in DOMAIN pid_to_info
                 => pid_to_info' = [pid_to_info EXCEPT ![p].state = "Run"]
            /\ p \notin DOMAIN pid_to_info => pid_to_info' = pid_to_info
            /\ (p \in DOMAIN pid_to_info /\ pid_to_info[p].state = "Run")
                 => pid_to_info' = pid_to_info]_vars

\* wait_child is about to be told that p was continued, while p, stopped
\* and continued before the Worker looked, is recorded as Run
C20_Witness ==
  /\ wpc = "wait"
  /\ \E p \in DOMAIN pid_to_info :
       /\ procs[p].ev = WsContinued(p)
       /\ pid_to_info[p].state = "Run"
       /\ fg = Some(pid_to_info[p].pgid)

\* ----------------------------------------------------------------------
\* C21: the Worker's inbound channel never holds two Cmd messages, and
\* while a Cmd is in it the Reader is not at its prompt: it sends nothing
\* until it has received the reply.
\* ----------------------------------------------------------------------
C21_OneCmdInFlight ==
  /\ NumCmds(worker_rx) <= 1
  /\ CmdQueued => rpc # "prompt"

\* the Reader's Cmd waits in the channel behind a Signal
C21_Witness ==
  /\ rpc = "recv"
  /\ Len(worker_rx) = 2
  /\ worker_rx[1].type = "Signal"
  /\ worker_rx[2] = MsgCmd(sent)

\* ----------------------------------------------------------------------
\* C22: parse_cmd fails exactly when some stage of the line holds nothing
\* but white space; otherwise it returns one pair per stage, in order, and
\* the command of a stage followed by its arguments is the stage's tokens.
\* ----------------------------------------------------------------------
C22_ParseCmd ==
  parsed # None =>
    LET r == Unwrap(parsed)
        stages == 1..NumStages(line_in)
    IN /\ r.ok <=> \A k \in stages : TokenStarts(line_in, k) # {}
       /\ r.ok => /\ Len(r.cmds) = NumStages(line_in)
                  /\ \A k \in stages :
                       <<r.cmds[k].cmd>> \o r.cmds[k].args = StageTokens(line_in, k)

\* a line of two stages, the first with an argument, has been parsed
C22_Witness ==
  /\ line_in = <<"a", "\t", "b", " ", "|", "a">>
  /\ parsed = Some([ok |-> TRUE,
                    cmds |-> <<[cmd |-> <<"a">>, args |-> << <<"b">> >>],
                               [cmd |-> <<"a">>, args |-> <<>>]>>])

\* ----------------------------------------------------------------------
\* C23: an Exited, Signaled or Stopped event of a process of the foreground
\* group, while another process of the group is recorded as Run, produces
\* no reply and leaves fg and the terminal as they are; a reply from
\* wait_child comes only with an event after which no process of the
\* foreground group is recorded as Run.
\* ----------------------------------------------------------------------
C23_PartialGroupIsSilent ==
  /\ [][\A p \in Pids : \A g \in Pids :
          (/\ ReapsTermOrStop(p) /\ MemberOf(p, g) /\ fg = Some(g)
           /\ \E q \in pgid_to_pids[g].pids \ {p} : pid_to_info[q].state = "Run")
            => /\ shell_tx' = <<>>
               /\ wpc' = "wait"
               /\ UNCHANGED <<fg, tty>>]_vars
  /\ [][(wpc = "wait" /\ shell_tx' # <<>>)
          => /\ fg # None
             /\ Unwrap(fg) \in DOMAIN pgid_to_pids'
                  => \A q \in pgid_to_pids'[Unwrap(fg)].pids : pid_to_info'[q].state # "Run"]_vars

\* the first process of the foreground job `a |b` is gone from its group,
\* the second is recorded as Run, and the Reader still waits
C23_Witness ==
  /\ rpc = "recv" /\ replies = 0 /\ wpc # "dead"
  /\ \E g \in DOMAIN pgid_to_pids :
       /\ fg = Some(g) /\ tty = g
       /\ \E q \in Pids : /\ pgid_to_pids[g].pids = {q}
                          /\ q # g
                          /\ pid_to_info[q].state = "Run"

\* ----------------------------------------------------------------------
\* C24: when the last process of a job that is not in the foreground is
\* reaped as Exited or Signaled, the job leaves jobs and its group leaves
\* pgid_to_pids, no reply is sent, fg and the terminal stay as they are and
\* the Worker goes on.
\* ----------------------------------------------------------------------
C24_BackgroundJobEnds ==
  [][\A p \in Pids : \A g \in Pids :
       (/\ Reaps(p) /\ MemberOf(p, g)
        /\ pgid_to_pids[g].pids = {p}
        /\ fg # Some(g))
         => /\ pgid_to_pids[g].job_id \notin DOMAIN jobs'
            /\ g \notin DOMAIN pgid_to_pids'
            /\ shell_tx' = <<>>
            /\ UNCHANGED <<fg, tty>>
            /\ wpc' = "wait"]_vars

\* ----------------------------------------------------------------------
\* C25: no child state change is lost: when the handling of a Signal ends,
\* every child event that was pending in the kernel has been reported to
\* the Worker and applied, so none is pending.
\* ----------------------------------------------------------------------
C25_NoChildEventLost ==
  [][SignalHandled => ~EventPending(procs')]_vars

\* ----------------------------------------------------------------------
\* C26: a failed second fork leaves no live child outside the tables: every
\* child that runs or is stopped is a pid of a group of pgid_to_pids.
\* ----------------------------------------------------------------------
C26_NoLiveChildOutsideTables ==
  wpc # "dead" =>
    \A p \in Pids :
      procs[p].st \in {"run", "stop"}
        => \E g \in DOMAIN pgid_to_pids : p \in pgid_to_pids[g].pids

\* ----------------------------------------------------------------------
\* C27: whenever the termination of the last pid of a group is reaped, so
\* that manage_job calls remove_job for the emptied group, the assertion of
\* remove_job passes: the Worker does not panic.
\* ----------------------------------------------------------------------
C27_RemoveJobAssertion ==
  [][\A p \in Pids : \A g \in Pids :
       (/\ Reaps(p) /\ MemberOf(p, g)
        /\ pgid_to_pids[g].pids = {p}
        /\ pgid_to_pids[g].job_id \in DOMAIN jobs)
         => wpc' # "dead"]_vars

\* ----------------------------------------------------------------------
\* C28: the Worker is inside shell_tx.send only while the Reader is inside
\* shell_rx.recv with a Cmd outstanding: never while the Reader prompts.
\* ----------------------------------------------------------------------
C28_SendMeetsRecv == wpc = "send" => ReaderWaits

\* the Reader waits on a foreground job and wait_child is sending the
\* Continue of its stop
C28_Witness ==
  /\ wpc = "send" /\ wret = "wait"
  /\ rpc = "recv" /\ sent = <<"a">>
  /\ shell_tx = <<Continue(exit_val)>>
  /\ DOMAIN jobs # {}

\* ----------------------------------------------------------------------
\* C29: while the Reader prompts, fg is None and the terminal belongs to
\* shell_pgid; fg becomes Some only in the handling of a Cmd.
\* ----------------------------------------------------------------------
C29_PromptMeansShellForeground ==
  /\ [](rpc = "prompt" => (fg = None /\ tty = shell_pgid))
  /\ [][(fg' # None /\ fg' # fg) => TakesCmd]_vars

\* the Reader prompts again while a stopped job is in the tables
C29_Witness ==
  /\ rpc = "prompt" /\ replies = 1
  /\ \E j \in DOMAIN jobs : \A p \in pgid_to_pids[jobs[j].pgid].pids :
       pid_to_info[p].state = "Stop" /\ procs[p].st = "stop"

\* ----------------------------------------------------------------------
\* C30: after an `fg` that resumed a job, wait_child reports the job as
\* stopped (fg := None and a Continue) only if every live process of the
\* group is stopped in the kernel.
\* ----------------------------------------------------------------------
C30_StoppedReportIsTrue ==
  [][(FgOutstanding /\ ReportsStopped)
       => \A q \in Pids :
            (procs'[q].pgid = Unwrap(fg) /\ procs'[q].st \in {"run", "stop"})
              => procs'[q].st = "stop"]_vars

\* ----------------------------------------------------------------------
\* C31: every Stopped(pid) that wait_child reaps names a pid that is a key
\* of pid_to_info whose pgid is a key of pgid_to_pids, so the two lookups
\* of process_stop succeed; also for the children of a spawn_child that
\* failed at its second fork.
\* ----------------------------------------------------------------------
C31_StoppedPidIsKnown ==
  [][\A p \in Pids :
       ReapsStop(p)
         => /\ p \in DOMAIN pid_to_info
            /\ pid_to_info[p].pgid \in DOMAIN pgid_to_pids
            /\ wpc' # "dead"]_vars

\* ----------------------------------------------------------------------
\* C32: whenever spawn_child reaches insert_job (every fork of the line
\* succeeded), the new job id is not in jobs, the new pgid is not in
\* pgid_to_pids and no new pid is a key of pid_to_info, so none of the
\* assertions of insert_job fails; also when the kernel hands out the pid
\* of a child that was reaped before.
\* ----------------------------------------------------------------------
C32_InsertJobIsFresh ==
  [][(/\ TakesSpawn
      /\ Len(HeadCmds) <= 2
      /\ Cardinality(Forked) = Len(HeadCmds))
       => /\ Unwrap(get_new_job_id(Machine)) \notin DOMAIN jobs
          /\ Leader \notin DOMAIN pgid_to_pids
          /\ Forked \cap DOMAIN pid_to_info = {}
          /\ wpc' # "dead"]_vars

\* ----------------------------------------------------------------------
\* Vocabulary of the ArrayStack claims
\* ----------------------------------------------------------------------
\* this step is the call add(i, x)
Adds(i, x) == Alive /\ call'.op = "add" /\ call'.args = <<i, x>>

\* this state follows a call get(i) that returned
GotAt(i) == call.op = "get" /\ call.args = <<i>> /\ ~call.panic

\* ----------------------------------------------------------------------
\* C33: add(i, x) with 0 <= i <= n returns with x at index i, the former
\* elements i..n-1 one index up in the same order, elements 0..i-1
\* unchanged and n one larger; a full backing array is replaced by one of
\* length max(2n, 1), any other keeps its length; and n never exceeds the
\* length of the backing array.
\* ----------------------------------------------------------------------
C33_AddIsSequenceInsert ==
  /\ [](array.n <= len(array.a))
  /\ [][\A i \in Indices, x \in Elems :
          (Adds(i, x) /\ i <= array.n)
            => /\ ~call'.panic
               /\ array'.n = array.n + 1
               /\ array'.a[i] = x
               /\ \A k \in 0..(i - 1) : array'.a[k] = array.a[k]
               /\ \A k \in i..(array.n - 1) : array'.a[k + 1] = array.a[k]
               /\ len(array'.a) = IF array.n >= len(array.a)
                                    THEN Max(2 * array.n, 1)
                                    ELSE len(array.a)]_vars

\* add(1, "r") has just grown a full array of two elements to length
\* four and put "r" between them
C33_Witness ==
  /\ call.op = "add" /\ call.args = <<1, "r">> /\ ~call.panic
  /\ array.n = 3 /\ len(array.a) = 4
  /\ array.a[0] = "b" /\ array.a[1] = "r" /\ array.a[2] = Default

\* ----------------------------------------------------------------------
\* C34: get(i) returns Some(the element at index i) when i < size() and
\* None when i >= size(), after any sequence of calls.
\* ----------------------------------------------------------------------
C34_GetIsTheList ==
  \A i \in Indices :
    GotAt(i) => call.ret = IF i < array.n THEN Some(array.a[i]) ELSE None

====
